---------------------------- MODULE Spec2Model ----------------------------
(***************************************************************************)
(* pylenium.pydriver.SeleniumDriver: a wrapper around one Selenium         *)
(* WebDriver session.  The wrapper is single-threaded and blocking, so at  *)
(* most one wrapper call is in progress.  Lookups built on                 *)
(* WebDriverWait.until take several steps (query, sleep, query, ...); all  *)
(* other calls are one step.                                               *)
(*                                                                         *)
(* Time is counted in ticks of half a second, measured from the            *)
(* moment WebDriverWait.until computes its deadline.                       *)
(*                                                                         *)
(* Names of errors: the code raises selenium's TimeoutException (the       *)
(* LookupTimeout of the design document) and ValueError (InvalidArgument). *)
(***************************************************************************)
EXTENDS Integers, Sequences, FiniteSets, TLC

\* ---- bounds of the model ------------------------------------------------
MaxWaitTime  == 1     \* wait_time, in seconds, is drawn from 0..MaxWaitTime
MaxQueryTime == 1     \* a query against the session takes 0..MaxQueryTime ticks
MaxOversleep == 0     \* time.sleep(poll) lasts poll + 0..MaxOversleep ticks
MaxMatches   == 2     \* a selector matches 0..MaxMatches nodes
MaxNumber    == 2     \* go(direction, number) with number in 0..MaxNumber, or left out
MaxHistory   == 1     \* the browser history holds at most MaxHistory entries after the start page

\* ---- inputs -------------------------------------------------------------
Urls         == {"u1"}
Selectors    == {"s1"}
Directions   == {"forward", "back", "refresh", "bogus"}
CookieNames  == {"foo", "baz"}
CookieValues == {"bar", "qux"}
Scripts      == {"return document.title;"}

\* ---- values -------------------------------------------------------------
Self         == [obj |-> "SeleniumDriver"]
None         == [obj |-> "None"]
ScriptValue  == [obj |-> "ScriptValue"]
WebElement(i) == [obj |-> "WebElement", id |-> i]
List(items)  == [obj |-> "list", items |-> items]

\* pylenium.element.Element(self, element) and Elements(self, elements)
Element(py, element)   == [obj |-> "Element", py |-> py, node |-> element]
Elements(py, elements) == [obj |-> "Elements", py |-> py, nodes |-> elements.items]

\* how a call ends
Returned(v)     == [kind |-> "returned", value |-> v]
Raised(e, what) == [kind |-> "raised", error |-> e, what |-> what]
Pending         == [kind |-> "pending"]

\* the ticks of n seconds
Seconds(n) == n * 2

VARIABLES
  session,    \* state of self._driver's browser session: "open" or "closed"
  sessions,   \* how many browser sessions have been created (webdriver.Chrome())
  timeout,    \* self.wait._timeout, in ticks
  histLen,    \* browser history: number of entries
  histPos,    \* browser history: index of the current entry, 1..histLen
  cookies,    \* browser cookie jar: name -> stored record, or None
  lastOp,     \* the wrapper call in progress, or the last one finished
  calls,      \* the calls that lastOp has issued to the session, in order
  result,     \* how lastOp ended, or Pending
  pc,         \* position inside WebDriverWait.until: "idle", "query" or "sleep"
  elapsed,    \* ticks elapsed since WebDriverWait.until computed end_time
  polled,     \* what each query of the lookup in progress came back with
  issuedAt,   \* value of elapsed when the latest query was issued
  took,       \* how long the latest query took
  slept,      \* how long the latest time.sleep lasted
  justSet,    \* the record given to set_cookie, when lastOp is a set_cookie that returned; else None
  prevSet     \* the value justSet had when lastOp started

vars == <<session, sessions, timeout, histLen, histPos, cookies, lastOp, calls,
          result, pc, elapsed, polled, issuedAt, took, slept, justSet, prevSet>>

\* ---- the browser session (selenium WebDriver) ---------------------------

\* Every command sent to a session that has quit fails.
SessionCall(value) ==
  IF session = "open" THEN Returned(value) ELSE Raised("WebDriverException", None)

\* window.history.go(delta): moves inside the history, or does nothing when
\* the target lies outside it.
HistoryGo(pos, len, delta) ==
  IF pos + delta >= 1 /\ pos + delta <= len THEN pos + delta ELSE pos

\* The record the browser stores for add_cookie(cookie): it keeps the given
\* keys and fills in the ones that were left out.
StoredCookie(cookie) ==
  [name |-> cookie.name, value |-> cookie.value,
   path |-> IF "path" \in DOMAIN cookie THEN cookie.path ELSE "/",
   domain |-> "host", secure |-> FALSE, httpOnly |-> FALSE]

\* __init__: webdriver.Chrome() and WebDriverWait(self._driver, timeout=wait_time)
Init ==
  /\ session = "open"
  /\ sessions = 1
  /\ timeout \in {Seconds(w) : w \in 0..MaxWaitTime}
  /\ histLen = 1
  /\ histPos = 1
  /\ cookies = [n \in CookieNames |-> None]
  /\ lastOp = [fn |-> "__init__"]
  /\ calls = <<>>
  /\ result = Returned(None)
  /\ pc = "idle"
  /\ elapsed = 0
  /\ polled = <<>>
  /\ issuedAt = 0
  /\ took = 0
  /\ slept = 0
  /\ justSet = None
  /\ prevSet = None

\* A wrapper call that does not use the waiter: one step.  came is what the
\* queries it issued came back with.
Direct(op, issued, came, res) ==
  /\ pc = "idle"
  /\ lastOp' = op
  /\ calls' = issued
  /\ result' = res
  /\ polled' = came
  /\ elapsed' = 0
  /\ issuedAt' = 0
  /\ took' = 0
  /\ slept' = 0
  /\ pc' = "idle"
  /\ prevSet' = justSet

OneStep(op, issued, res) == Direct(op, issued, <<>>, res)

\* ---- navigation ---------------------------------------------------------

\* visit as it would be if the wrapper started a new browser when the old
\* one has quit
visit_reopening(url) ==
  /\ histPos < MaxHistory + 1
  /\ OneStep([fn |-> "visit", url |-> url], <<[fn |-> "get", url |-> url]>>,
             Returned(Self))
  /\ session' = "open"
  /\ sessions' = IF session = "open" THEN sessions ELSE sessions + 1
  /\ histPos' = IF session = "open" THEN histPos + 1 ELSE 2
  /\ histLen' = IF session = "open" THEN histPos + 1 ELSE 2
  /\ justSet' = None
  /\ UNCHANGED <<timeout, cookies>>

\* visit(url): self._driver.get(url); return self
visit(url) ==
  /\ histPos < MaxHistory + 1
  /\ LET r == SessionCall(None) IN
     /\ OneStep([fn |-> "visit", url |-> url],
                <<[fn |-> "get", url |-> url]>>,
                IF r.kind = "returned" THEN Returned(Self) ELSE r)
     /\ IF r.kind = "returned"
          THEN histPos' = histPos + 1 /\ histLen' = histPos + 1
          ELSE UNCHANGED <<histPos, histLen>>
  /\ justSet' = None
  /\ UNCHANGED <<session, sessions, timeout, cookies>>

\* go's parameter number: int = 1; args holds the number the caller gave, if any
Number(args) == IF args = <<>> THEN 1 ELSE args[1]

\* GoCalls as it would be with the sign of 'back' lost
GoCallsUnsigned(direction, number) ==
  IF direction \in {"back", "forward"}
    THEN <<[fn |-> "execute_script", script |-> "window.history.go(arguments[0])", arg |-> number]>>
  ELSE IF direction = "refresh"
    THEN <<[fn |-> "refresh"]>>
  ELSE <<>>

\* The session calls go(direction, number) issues.
GoCalls(direction, number) ==
  IF direction = "back"
    THEN <<[fn |-> "execute_script", script |-> "window.history.go(arguments[0])", arg |-> number * (-1)]>>
  ELSE IF direction = "forward"
    THEN <<[fn |-> "execute_script", script |-> "window.history.go(arguments[0])", arg |-> number]>>
  ELSE IF direction = "refresh"
    THEN <<[fn |-> "refresh"]>>
  ELSE <<>>

\* GoResult as it would be without the final else branch
GoResultNoElse(direction, r) ==
  IF r.kind = "returned" \/ direction \notin {"back", "forward", "refresh"}
    THEN Returned(None) ELSE r

\* How go(direction, number) ends: the function has no return statement.
GoResult(direction, r) ==
  IF direction \in {"back", "forward", "refresh"}
    THEN (IF r.kind = "returned" THEN Returned(None) ELSE r)
    ELSE Raised("ValueError", direction)

go(direction, args) ==
  /\ LET issued == GoCalls(direction, Number(args))
         r == SessionCall(None)
     IN
     /\ OneStep([fn |-> "go", direction |-> direction, args |-> args],
                issued, GoResult(direction, r))
     /\ IF Len(issued) = 1 /\ issued[1].fn = "execute_script" /\ r.kind = "returned"
          THEN histPos' = HistoryGo(histPos, histLen, issued[1].arg)
          ELSE UNCHANGED histPos
  /\ justSet' = None
  /\ UNCHANGED <<session, sessions, timeout, histLen, cookies>>

\* ---- the lookup waiter (selenium WebDriverWait) --------------------------

\* WebDriverWait's default poll_frequency, 0.5 s, in ticks
PollFrequency == 1

\* IgnoredExceptions as it would be if the waiter ignored nothing
IgnoredNothing == {}

\* WebDriverWait's default ignored_exceptions
IgnoredExceptions == {"NoSuchElementException"}

\* what a query against the session comes back with
Value(v) == [kind |-> "value", value |-> v]
Raise(e) == [kind |-> "raise", error |-> e]

\* find_element on a page where the selector matches m nodes: the first
\* match, or NoSuchElementException when there is none.
find_element(m) ==
  IF m = 0 THEN Raise("NoSuchElementException") ELSE Value(WebElement(1))

\* find_elements on a page where the selector matches m nodes: the list of
\* all matches, empty when there is none.
find_elements(m) == Value(List([i \in 1..m |-> WebElement(i)]))

\* Truthy as it would be if until tested `value is not None`
TruthyNotNone(v) == v # None

\* Truthy as it would be if until took only a non-empty list for a result
TruthyListOnly(v) == v.obj = "list" /\ Len(v.items) > 0

\* Python truth value of what a query returned: `if value:` in until
Truthy(v) == IF v.obj = "list" THEN Len(v.items) > 0 ELSE TRUE

\* Expired as it would be with the comparison turned round
ExpiredInverted(now, end_time) == now < end_time

\* `if time.time() > end_time: break` in until; end_time = start + timeout
Expired(now, end_time) == now > end_time

\* The query each lookup passes to the session, and the session call it is.
QueryCall(op) ==
  IF op.fn = "contains"
    THEN [fn |-> "find_element", by |-> "xpath",
          sel |-> <<"//*[contains(text(), \"", op.text, "\")]">>]
  ELSE IF op.fn = "get"
    THEN [fn |-> "find_element", by |-> "css selector", sel |-> op.css]
  ELSE [fn |-> "find_elements", by |-> "css selector", sel |-> op.css]

\* What the query comes back with when the selector matches m nodes; fault
\* says that the session fails the command with another error (invalid
\* selector, stale frame, lost connection, ...), as a closed session always does.
QueryOutcome(op, m, fault) ==
  IF session # "open" \/ fault THEN Raise("WebDriverException")
  ELSE IF QueryCall(op).fn = "find_element" THEN find_element(m)
  ELSE find_elements(m)

\* The message each lookup hands to until.
Message(op) ==
  IF op.fn = "contains" THEN [text |-> "Could not find element with the text", sel |-> op.text]
  ELSE IF op.fn = "get" THEN [text |-> "Could not find element with the CSS", sel |-> op.css]
  ELSE [text |-> "Could not find any elements with the CSS", sel |-> op.css]

\* What each lookup makes of the value it got.
Wrap(op, v) ==
  IF op.fn \in {"contains", "get"} THEN Element(Self, v) ELSE Elements(Self, v)

\* A lookup enters self.wait.until: end_time = time.time() + timeout.
StartWait(op) ==
  /\ pc = "idle"
  /\ lastOp' = op
  /\ calls' = <<>>
  /\ result' = Pending
  /\ polled' = <<>>
  /\ elapsed' = 0
  /\ issuedAt' = 0
  /\ took' = 0
  /\ slept' = 0
  /\ pc' = "query"
  /\ prevSet' = justSet
  /\ justSet' = None
  /\ UNCHANGED <<session, sessions, timeout, histLen, histPos, cookies>>

\* contains(text)
contains(text) ==
  /\ StartWait([fn |-> "contains", text |-> text])

\* get(css)
get(css) ==
  /\ StartWait([fn |-> "get", css |-> css])

\* find as it would be if it went through the waiter whatever at_least_one is
find_always_waiting(css, at_least_one) ==
  StartWait([fn |-> "find", css |-> css, at_least_one |-> at_least_one])

\* find(css, at_least_one): with at_least_one the query goes through until,
\* without it the query is issued once, directly.
find(css, at_least_one) ==
  LET op == [fn |-> "find", css |-> css, at_least_one |-> at_least_one] IN
  IF at_least_one
    THEN StartWait(op)
    ELSE \E m \in 0..MaxMatches, fault \in BOOLEAN :
           LET o == QueryOutcome(op, m, fault) IN
           /\ Direct(op, <<QueryCall(op)>>, <<o>>,
                     IF o.kind = "value" THEN Returned(Wrap(op, o.value))
                                         ELSE Raised(o.error, None))
           /\ justSet' = None
           /\ UNCHANGED <<session, sessions, timeout, histLen, histPos, cookies>>

\* How one pass of until's loop body continues after the query came back
\* with o: "return", "propagate" (the error leaves until) or "sleep".
AfterQuery(o) ==
  IF o.kind = "value"
    THEN (IF Truthy(o.value) THEN "return" ELSE "sleep")
    ELSE (IF o.error \in IgnoredExceptions THEN "sleep" ELSE "propagate")

\* until, first half of the loop body: value = method(self._driver)
Poll(m, fault, dur) ==
  /\ pc = "query"
  /\ LET o == QueryOutcome(lastOp, m, fault)
         then == AfterQuery(o)
     IN
     /\ calls' = Append(calls, QueryCall(lastOp))
     /\ polled' = Append(polled, o)
     /\ issuedAt' = elapsed
     /\ took' = dur
     /\ elapsed' = elapsed + dur
     /\ pc' = IF then = "sleep" THEN "sleep" ELSE "idle"
     /\ result' = IF then = "return" THEN Returned(Wrap(lastOp, o.value))
                  ELSE IF then = "propagate" THEN Raised(o.error, None)
                  ELSE result
  /\ UNCHANGED <<session, sessions, timeout, histLen, histPos, cookies,
                 lastOp, slept, justSet, prevSet>>

\* until, second half of the loop body: time.sleep(self._poll), then the
\* test of the deadline; past it, raise TimeoutException(message).
Sleep(over) ==
  /\ pc = "sleep"
  /\ slept' = PollFrequency + over
  /\ elapsed' = elapsed + PollFrequency + over
  /\ IF Expired(elapsed', timeout)
       THEN pc' = "idle" /\ result' = Raised("TimeoutException", Message(lastOp))
       ELSE pc' = "query" /\ UNCHANGED result
  /\ UNCHANGED <<session, sessions, timeout, histLen, histPos, cookies,
                 lastOp, calls, polled, issuedAt, took, justSet, prevSet>>

\* ---- browser ------------------------------------------------------------

\* delete_cookie(name)
delete_cookie(name) ==
  /\ LET r == SessionCall(None) IN
     /\ OneStep([fn |-> "delete_cookie", name |-> name],
                <<[fn |-> "delete_cookie", name |-> name]>>, r)
     /\ cookies' = IF r.kind = "returned" THEN [cookies EXCEPT ![name] = None]
                                          ELSE cookies
  /\ justSet' = None
  /\ UNCHANGED <<session, sessions, timeout, histLen, histPos>>

\* delete_all_cookies()
delete_all_cookies ==
  /\ LET r == SessionCall(None) IN
     /\ OneStep([fn |-> "delete_all_cookies"], <<[fn |-> "delete_all_cookies"]>>, r)
     /\ cookies' = IF r.kind = "returned" THEN [n \in CookieNames |-> None]
                                          ELSE cookies
  /\ justSet' = None
  /\ UNCHANGED <<session, sessions, timeout, histLen, histPos>>

\* The session's get_cookie(name): the stored record of that name, or None.
SessionGetCookie(jar, name) == jar[name]

\* get_cookie(name)
get_cookie(name) ==
  /\ OneStep([fn |-> "get_cookie", name |-> name],
             <<[fn |-> "get_cookie", name |-> name]>>,
             SessionCall(SessionGetCookie(cookies, name)))
  /\ justSet' = None
  /\ UNCHANGED <<session, sessions, timeout, histLen, histPos, cookies>>

\* The session's get_cookies(): the stored records.
SessionGetCookies(jar) ==
  List(SelectSeq(<<jar["foo"], jar["baz"]>>, LAMBDA c : c # None))

\* get_cookies()
get_cookies ==
  /\ OneStep([fn |-> "get_cookies"], <<[fn |-> "get_cookies"]>>,
             SessionCall(SessionGetCookies(cookies)))
  /\ justSet' = None
  /\ UNCHANGED <<session, sessions, timeout, histLen, histPos, cookies>>

\* set_cookie as it would be if the record never reached the session
set_cookie_not_sent(cookie) ==
  /\ OneStep([fn |-> "set_cookie", cookie |-> cookie], <<>>, Returned(None))
  /\ justSet' = cookie
  /\ UNCHANGED <<session, sessions, timeout, histLen, histPos, cookies>>

\* set_cookie(cookie)
set_cookie(cookie) ==
  /\ LET r == SessionCall(None) IN
     /\ OneStep([fn |-> "set_cookie", cookie |-> cookie],
                <<[fn |-> "add_cookie", cookie |-> cookie]>>, r)
     /\ cookies' = IF r.kind = "returned"
                     THEN [cookies EXCEPT ![cookie.name] = StoredCookie(cookie)]
                     ELSE cookies
     /\ justSet' = IF r.kind = "returned" THEN cookie ELSE None
  /\ UNCHANGED <<session, sessions, timeout, histLen, histPos>>

\* execute_script(javascript, *args)
execute_script(javascript) ==
  /\ OneStep([fn |-> "execute_script", script |-> javascript],
             <<[fn |-> "execute_script", script |-> javascript]>>,
             SessionCall(ScriptValue))
  /\ justSet' = None
  /\ UNCHANGED <<session, sessions, timeout, histLen, histPos, cookies>>

\* quit(): ends the browser session; Chrome's quit swallows the error of a
\* session that is already gone.
quit ==
  /\ OneStep([fn |-> "quit"], <<[fn |-> "quit"]>>, Returned(None))
  /\ session' = "closed"
  /\ justSet' = None
  /\ UNCHANGED <<sessions, timeout, histLen, histPos, cookies>>

\* the records callers pass to set_cookie
CookieRecords ==
  {[name |-> n, value |-> v] : n \in CookieNames, v \in CookieValues}

Next ==
  \/ \E url \in Urls : visit(url)
  \/ \E d \in Directions, args \in {<<>>} \cup {<<n>> : n \in 0..MaxNumber} : go(d, args)
  \/ \E text \in Selectors : contains(text)
  \/ \E css \in Selectors : get(css)
  \/ \E css \in Selectors, at_least_one \in BOOLEAN : find(css, at_least_one)
  \/ \E m \in 0..MaxMatches, fault \in BOOLEAN, dur \in 0..MaxQueryTime : Poll(m, fault, dur)
  \/ \E over \in 0..MaxOversleep : Sleep(over)
  \/ \E name \in CookieNames : delete_cookie(name)
  \/ delete_all_cookies
  \/ \E name \in CookieNames : get_cookie(name)
  \/ get_cookies
  \/ \E cookie \in CookieRecords : set_cookie(cookie)
  \/ \E javascript \in Scripts : execute_script(javascript)
  \/ quit

Spec == Init /\ [][Next]_vars

\* A lookup blocks its caller until it is over: the session answers every
\* query and every sleep ends, so a lookup in progress always takes its next step.
FairSpec ==
  /\ Spec
  /\ WF_vars(\E m \in 0..MaxMatches, fault \in BOOLEAN, dur \in 0..MaxQueryTime : Poll(m, fault, dur))
  /\ WF_vars(\E over \in 0..MaxOversleep : Sleep(over))

\* ---- properties ---------------------------------------------------------

Single   == lastOp.fn \in {"contains", "get"}
Multiple == lastOp.fn = "find"
Waited   == Single \/ (Multiple /\ lastOp.at_least_one)
Over     == pc = "idle"

\* the query found nothing: no such element, or an empty list
IsMiss(o) == o = Raise("NoSuchElementException") \/ o = Value(List(<<>>))
\* the query found something
IsHit(o)  == o.kind = "value" /\ o # Value(List(<<>>))
\* the query failed with an error other than element-not-found
IsFault(o) == o.kind = "raise" /\ o.error # "NoSuchElementException"

NeverMatched == \A i \in DOMAIN polled : IsMiss(polled[i])
TimedOut     == result = Raised("TimeoutException", Message(lastOp))

\* C1 as claimed: a single-result lookup whose query never matched is over
\* with LookupTimeout no later than timeout + one poll interval after it
\* started, after at least one failed query, and without a value.
C1_Claimed ==
  (Single /\ Over /\ NeverMatched) =>
     /\ TimedOut
     /\ Len(polled) >= 1
     /\ elapsed <= timeout + PollFrequency

C1_Safe ==
  /\ (Single /\ Over /\ NeverMatched) =>
        /\ TimedOut
        /\ Len(polled) >= 1
        /\ issuedAt <= timeout
        /\ elapsed = issuedAt + took + slept
  /\ (Single /\ pc = "query") => elapsed <= timeout

\* C1, amended: a single-result lookup always comes to an end; when its query
\* never matched it ends with LookupTimeout, after at least one failed query
\* and without a value; its last query is issued no later than timeout after
\* the start, and the error is raised at the end of the sleep that follows
\* that query, that is no later than timeout + the time that query took +
\* the time that sleep lasted.
C1_LookupTimeout ==
  /\ []C1_Safe
  /\ (Single /\ ~Over) ~> (Single /\ Over)

C1_Witness ==
  Single /\ Over /\ NeverMatched /\ TimedOut /\ Len(polled) >= 2
    /\ elapsed > timeout + PollFrequency

\* C2: in a single-result lookup, the first poll that finds something is the
\* last query issued, and the lookup is over with the value of that poll: the
\* number of queries issued is the index of the first poll that found something.
C2_ReturnsFirstTruthy ==
  Single =>
    \A i \in DOMAIN polled :
      IsHit(polled[i]) =>
        /\ Over
        /\ i = Len(polled)
        /\ Len(calls) = i
        /\ result = Returned(Element(Self, polled[i].value))

C2_Witness ==
  Single /\ Over /\ Len(polled) >= 2 /\ IsHit(polled[Len(polled)])
    /\ result.kind = "returned"

\* C3: find(css, at_least_one=False) on a selector that matches nothing
\* returns an empty sequence without raising, after exactly one
\* find_elements query, and never enters the waiter's loop, whatever the
\* timeout is.
C3_FindOptionalEmpty ==
  (Multiple /\ ~lastOp.at_least_one) =>
     /\ Over
     /\ slept = 0
     /\ calls = <<[fn |-> "find_elements", by |-> "css selector", sel |-> lastOp.css]>>
     /\ (polled = <<Value(List(<<>>))>> => result = Returned(Elements(Self, List(<<>>))))

C3_Witness ==
  Multiple /\ ~lastOp.at_least_one /\ polled = <<Value(List(<<>>))>>
    /\ result.kind = "returned" /\ timeout > 0

\* C4: find(css, at_least_one=True) on a selector that matched nothing for
\* the whole wait raises LookupTimeout, and whenever it returns, the sequence
\* it returns is not empty.
C4_FindRequired ==
  (Multiple /\ lastOp.at_least_one /\ Over) =>
     /\ NeverMatched => (TimedOut /\ Len(polled) >= 1)
     /\ result.kind = "returned" => Len(result.value.nodes) >= 1

C4_Witness ==
  Multiple /\ lastOp.at_least_one /\ Over /\ NeverMatched /\ TimedOut
    /\ Len(polled) >= 2

\* C5: go('back', n) issues exactly one history script call with step -n,
\* go('forward', n) exactly one with step +n, n being 1 when it is left out;
\* go('refresh', n) issues the session's refresh and no script.
C5_GoSteps ==
  lastOp.fn = "go" =>
    LET n == IF lastOp.args = <<>> THEN 1 ELSE lastOp.args[1] IN
    /\ lastOp.direction = "back" =>
          /\ Len(calls) = 1
          /\ calls[1].fn = "execute_script"
          /\ calls[1].script = "window.history.go(arguments[0])"
          /\ calls[1].arg = 0 - n
    /\ lastOp.direction = "forward" =>
          /\ Len(calls) = 1
          /\ calls[1].fn = "execute_script"
          /\ calls[1].script = "window.history.go(arguments[0])"
          /\ calls[1].arg = n
    /\ lastOp.direction = "refresh" => calls = <<[fn |-> "refresh"]>>

C5_Witness ==
  /\ lastOp = [fn |-> "go", direction |-> "back", args |-> <<2>>]
  /\ calls[1].arg = -2
  /\ result.kind = "returned"

\* C6: go with a direction outside {forward, back, refresh} raises
\* InvalidArgument naming the value it received and issues no call to the
\* session: the browser (its history position included) is left as it was.
C6_GoInvalid ==
  /\ [](lastOp.fn = "go" /\ lastOp.direction \notin {"forward", "back", "refresh"}
          => result = Raised("ValueError", lastOp.direction) /\ calls = <<>>)
  /\ [][ lastOp'.fn = "go" /\ lastOp'.direction \notin {"forward", "back", "refresh"}
          => UNCHANGED <<session, sessions, histLen, histPos, cookies>> ]_vars

C6_Witness ==
  /\ lastOp.fn = "go" /\ lastOp.direction = "bogus"
  /\ result = Raised("ValueError", "bogus")
  /\ histPos = 2

\* C7: get_cookie(name) right after a set_cookie of a record with only the
\* keys name and value (which returned) returns a record, with the keys name
\* and value as they were set, whatever the cookie jar held before.
C7_SetThenGetCookie ==
  (lastOp.fn = "get_cookie" /\ prevSet # None /\ DOMAIN prevSet = {"name", "value"}
     /\ lastOp.name = prevSet.name) =>
     /\ result.kind = "returned"
     /\ result.value # None
     /\ {"name", "value"} \subseteq DOMAIN result.value
     /\ result.value.name = prevSet.name
     /\ result.value.value = prevSet.value

C7_Witness ==
  /\ lastOp = [fn |-> "get_cookie", name |-> "foo"]
  /\ prevSet = [name |-> "foo", value |-> "qux"]
  /\ result.kind = "returned"
  /\ cookies["baz"] # None

\* C8 as claimed: visit, and go forward, back or refresh, return the session
\* wrapper itself whenever they return.
C8_Claimed ==
  (result.kind = "returned" /\
     (lastOp.fn = "visit" \/
        (lastOp.fn = "go" /\ lastOp.direction \in {"forward", "back", "refresh"})))
   => result.value = Self

\* C9 as claimed: the only error a lookup built on the waiter ends with is
\* LookupTimeout carrying the description; a query that raised, whatever it
\* raised, did not end the lookup.
C9_Claimed ==
  Waited =>
    /\ result.kind = "raised" => TimedOut
    /\ \A i \in DOMAIN polled :
         polled[i].kind = "raise" => (i < Len(polled) \/ ~Over \/ TimedOut)

\* C9, amended: in a lookup built on the waiter, a query that raises
\* element-not-found is treated like a falsy result (the error is not
\* propagated and polling goes on), while a query that raises any other
\* error ends the lookup at once with that error; so a lookup ends with
\* LookupTimeout carrying the description or with the other error of its
\* last query.
C9_ErrorsOfLookups ==
  Waited =>
    /\ \A i \in DOMAIN polled :
         /\ polled[i] = Raise("NoSuchElementException") =>
               (i < Len(polled) \/ ~Over \/ TimedOut)
         /\ IsFault(polled[i]) =>
               (i = Len(polled) /\ Over /\ result = Raised(polled[i].error, None))
    /\ result.kind = "raised" =>
         \/ TimedOut
         \/ (Len(polled) >= 1 /\ IsFault(polled[Len(polled)])
               /\ result = Raised(polled[Len(polled)].error, None))

C9_Witness ==
  /\ Waited /\ Over /\ session = "open"
  /\ Len(polled) = 2
  /\ polled[1] = Raise("NoSuchElementException")
  /\ polled[2] = Raise("WebDriverException")
  /\ result = Raised("WebDriverException", None)

\* C10: the session is open or closed; it starts open, quit() closes it, and
\* once closed no call of the wrapper opens it again or creates another
\* session.
C10_ClosedIsTerminal ==
  /\ session = "open"
  /\ [](session \in {"open", "closed"} /\ sessions = 1)
  /\ [][lastOp'.fn = "quit" => session' = "closed"]_vars
  /\ [][session = "closed" => session' = "closed"]_vars

C10_Witness ==
  session = "closed" /\ lastOp.fn = "visit" /\ result.kind = "raised"

=============================================================================
